---- MODULE Spec2Model ----
(***************************************************************************)
(* Draw-number / date reconciliation of the lottery-ticket OCR backend.    *)
(*                                                                         *)
(*   backend/lotto_validation.py  weekly-schedule arithmetic and checks    *)
(*   backend/main.py              get_latest_lotto_info,                   *)
(*                                validate_ocr_results and the handlers    *)
(*                                                                         *)
(* Python values are tagged records [t, v, s]: t is the type, v the        *)
(* integer payload (an int, or a datetime's proleptic ordinal), s the      *)
(* characters of a str (a sequence of one-character strings).  A call's    *)
(* outcome is [exc, val]: exc = "" when the call returned val, otherwise   *)
(* the class of the exception that left the call.                          *)
(***************************************************************************)
EXTENDS Integers, Sequences, FiniteSets, TLC

\* ------------------------------------------------------------------ bounds
\* Largest draw number the date functions are applied to.
MaxDrawN == 9
\* Largest number of days added to / subtracted from a draw date.
MaxShift == 7
\* Largest draw number of a latest-draw record.
MaxLatest == 2
\* Largest draw number the OCR text is taken to hold.
MaxOcrDraw == 4
\* draws whose draw date is handed to calculate_payment_deadline (draw 65 is
\* 2004-02-28, the day before a 29 February)
MaxDeadlineDraw == 70
\* Number of ids uuid4 can produce.
MaxUuid == 2
\* Latest reading of the clock.
MaxClock == 2

\* ------------------------------------------------------------------ values
NoneV == [t |-> "none", v |-> 0, s |-> <<>>]
IntV(n) == [t |-> "int", v |-> n, s |-> <<>>]
StrV(cs) == [t |-> "str", v |-> 0, s |-> cs]
DateTimeV(ord) == [t |-> "datetime", v |-> ord, s |-> <<>>]

Returned(val) == [exc |-> "", val |-> val]
Raised(cls) == [exc |-> cls, val |-> NoneV]

\* Python truthiness of a value: None, 0 and "" are falsy.
Truthy(x) ==
  CASE x.t = "none" -> FALSE
    [] x.t = "int" -> x.v # 0
    [] x.t = "str" -> x.s # <<>>
    [] OTHER -> TRUE

\* ----------------------------------------------------------------- strings
\* A str is a sequence of characters, each a string of its own.  The Hangul
\* syllables of the ticket text are written by their romanised names.
Hoe == "[hoe]"     \* U+D68C, the unit word after a draw number
Je == "[je]"       \* U+C81C, the ordinal prefix before a draw number
Cha == "[cha]"     \* U+CC28, as in the two-syllable unit word hoe-cha
Il == "[il]"       \* U+C77C, Sunday in a weekday suffix
DigitChars == <<"0", "1", "2", "3", "4", "5", "6", "7", "8", "9">>
IsDigit(c) == \E i \in 1..10 : DigitChars[i] = c
DigitVal(c) == (CHOOSE i \in 1..10 : DigitChars[i] = c) - 1

RECURSIVE DigitsOf(_)
\* decimal digits of a natural number, most significant first
DigitsOf(n) == IF n < 10 THEN <<DigitChars[n + 1]>>
               ELSE Append(DigitsOf(n \div 10), DigitChars[(n % 10) + 1])

RECURSIVE ZeroPad(_, _)
ZeroPad(cs, width) == IF Len(cs) >= width THEN cs ELSE ZeroPad(<<"0">> \o cs, width)

RECURSIVE DigitsValue(_)
\* value of a non-empty sequence of digit characters
DigitsValue(cs) == IF Len(cs) = 1 THEN DigitVal(cs[1])
                   ELSE 10 * DigitsValue(SubSeq(cs, 1, Len(cs) - 1)) + DigitVal(cs[Len(cs)])

AllDigits(cs) == cs # <<>> /\ \A i \in 1..Len(cs) : IsDigit(cs[i])

RECURSIVE Replace(_, _, _)
\* str.replace(old, new) for a one-character old; new is a (possibly empty) string
Replace(cs, old, new) ==
  IF cs = <<>> THEN <<>>
  ELSE (IF cs[1] = old THEN new ELSE <<cs[1]>>) \o Replace(Tail(cs), old, new)

RECURSIVE LStrip(_)
LStrip(cs) == IF cs # <<>> /\ cs[1] = " " THEN LStrip(Tail(cs)) ELSE cs
RECURSIVE RStrip(_)
RStrip(cs) == IF cs # <<>> /\ cs[Len(cs)] = " " THEN RStrip(SubSeq(cs, 1, Len(cs) - 1)) ELSE cs
\* str.strip()
Strip(cs) == RStrip(LStrip(cs))

Contains(cs, c) == \E i \in 1..Len(cs) : cs[i] = c

\* ---------------------------------------------------------------- calendar
\* datetime's proleptic Gregorian calendar (ordinal 1 = 0001-01-01).
IsLeap(y) == y % 4 = 0 /\ (y % 100 # 0 \/ y % 400 = 0)
DaysInMonth(y, m) ==
  IF m = 2 THEN (IF IsLeap(y) THEN 29 ELSE 28)
  ELSE IF m \in {4, 6, 9, 11} THEN 30 ELSE 31
DaysBeforeYear(y) == (y - 1) * 365 + (y - 1) \div 4 - (y - 1) \div 100 + (y - 1) \div 400
RECURSIVE DaysBeforeMonth(_, _)
DaysBeforeMonth(y, m) == IF m = 1 THEN 0 ELSE DaysBeforeMonth(y, m - 1) + DaysInMonth(y, m - 1)
Ymd2Ord(y, m, d) == DaysBeforeYear(y) + DaysBeforeMonth(y, m) + d
MinOrdinal == Ymd2Ord(1, 1, 1)
MaxOrdinal == Ymd2Ord(9999, 12, 31)

\* year of an ordinal
OrdYear(ord) ==
  LET n0 == ord - 1
      n400 == n0 \div 146097
      r400 == n0 % 146097
      n100 == r400 \div 36524
      r100 == r400 % 36524
      n4 == r100 \div 1461
      r4 == r100 % 1461
      n1 == r4 \div 365
      y == n400 * 400 + n100 * 100 + n4 * 4 + n1 + 1
  IN IF n1 = 4 \/ n100 = 4 THEN y - 1 ELSE y
RECURSIVE MonthOf(_, _, _)
\* month holding the day-of-year doy (1-based), searching from month m
MonthOf(y, doy, m) ==
  IF doy <= DaysBeforeMonth(y, m) + DaysInMonth(y, m) THEN m ELSE MonthOf(y, doy, m + 1)
YmdAt(y, m, doy) == [y |-> y, m |-> m, d |-> doy - DaysBeforeMonth(y, m)]
YmdInYear(y, doy) == YmdAt(y, MonthOf(y, doy, 1), doy)
Ord2YmdIn(ord, y) == YmdInYear(y, ord - DaysBeforeYear(y))
\* (year, month, day) of an ordinal
Ord2Ymd(ord) == Ord2YmdIn(ord, OrdYear(ord))

\* datetime.weekday(): Monday = 0 .. Sunday = 6
Weekday(ord) == (ord + 6) % 7

\* datetime + timedelta(days): OverflowError outside datetime's range
AddDays(ord, days) ==
  IF ord + days < MinOrdinal \/ ord + days > MaxOrdinal
  THEN Raised("OverflowError") ELSE Returned(DateTimeV(ord + days))

FormatYmd(c, sep) ==
  ZeroPad(DigitsOf(c.y), 4) \o <<sep>> \o ZeroPad(DigitsOf(c.m), 2)
    \o <<sep>> \o ZeroPad(DigitsOf(c.d), 2)
\* datetime.strftime("%Y<sep>%m<sep>%d")
Strftime(ord, sep) == FormatYmd(Ord2Ymd(ord), sep)

\* Length of the month field "1[0-2]|0[1-9]|[1-9]" matched at position i (0: no match)
MonthLen(cs, i) ==
  LET two == i + 1 <= Len(cs)
  IN IF two /\ cs[i] = "1" /\ cs[i + 1] \in {"0", "1", "2"} THEN 2
     ELSE IF two /\ cs[i] = "0" /\ IsDigit(cs[i + 1]) /\ cs[i + 1] # "0" THEN 2
     ELSE IF i <= Len(cs) /\ IsDigit(cs[i]) /\ cs[i] # "0" THEN 1
     ELSE 0
\* Length of the day field "3[01]|[12]\d|0[1-9]|[1-9]| [1-9]" matched at position i
DayLen(cs, i) ==
  LET two == i + 1 <= Len(cs)
  IN IF two /\ cs[i] = "3" /\ cs[i + 1] \in {"0", "1"} THEN 2
     ELSE IF two /\ cs[i] \in {"1", "2"} /\ IsDigit(cs[i + 1]) THEN 2
     ELSE IF two /\ cs[i] = "0" /\ IsDigit(cs[i + 1]) /\ cs[i + 1] # "0" THEN 2
     ELSE IF i <= Len(cs) /\ IsDigit(cs[i]) /\ cs[i] # "0" THEN 1
     ELSE IF two /\ cs[i] = " " /\ IsDigit(cs[i + 1]) /\ cs[i + 1] # "0" THEN 2
     ELSE 0

\* datetime(y, m, d): ValueError when it names no calendar day
MakeDateTime(y, m, d) ==
  IF y < 1 \/ d > DaysInMonth(y, m) THEN Raised("ValueError")
  ELSE Returned(DateTimeV(Ymd2Ord(y, m, d)))
StrptimeDay(cs, ml, dl) ==
  IF dl > 0 /\ 7 + ml + dl - 1 = Len(cs)
  THEN MakeDateTime(DigitsValue(SubSeq(cs, 1, 4)),
                    DigitsValue(SubSeq(cs, 6, 6 + ml - 1)),
                    DigitsValue(LStrip(SubSeq(cs, 7 + ml, 7 + ml + dl - 1))))
  ELSE Raised("ValueError")
StrptimeMonth(cs, sep, ml) ==
  IF ml > 0 /\ 6 + ml <= Len(cs) /\ cs[6 + ml] = sep
  THEN StrptimeDay(cs, ml, DayLen(cs, 7 + ml))
  ELSE Raised("ValueError")
\* datetime.strptime(cs, "%Y<sep>%m<sep>%d"): a datetime, or ValueError when the
\* text does not match, leaves data unconverted or names no calendar day.
Strptime(cs, sep) ==
  IF Len(cs) >= 5 /\ AllDigits(SubSeq(cs, 1, 4)) /\ cs[5] = sep
  THEN StrptimeMonth(cs, sep, MonthLen(cs, 6))
  ELSE Raised("ValueError")

\* str(x)
PyStr(x) ==
  CASE x.t = "str" -> x.s
    [] x.t = "int" -> IF x.v < 0 THEN <<"-">> \o DigitsOf(0 - x.v) ELSE DigitsOf(x.v)
    [] x.t = "datetime" -> Strftime(x.v, "-") \o <<" ", "0", "0", ":", "0", "0", ":", "0", "0">>
    [] OTHER -> <<"N", "o", "n", "e">>

IntOfBody(body) ==
  IF body # <<>> /\ body[1] \in {"-", "+"}
  THEN (IF ~AllDigits(Tail(body)) THEN Raised("ValueError")
        ELSE IF body[1] = "-" THEN Returned(IntV(0 - DigitsValue(Tail(body))))
        ELSE Returned(IntV(DigitsValue(Tail(body)))))
  ELSE (IF ~AllDigits(body) THEN Raised("ValueError")
        ELSE Returned(IntV(DigitsValue(body))))
\* int(cs): surrounding blanks and one sign are accepted, then digits only;
\* anything else is a ValueError
PyInt(cs) == IntOfBody(Strip(cs))

\* ------------------------------------------------------------------ state
VARIABLES
  fn,          \* schedule functions: the function applied last ("" before any call)
  draw_no,     \* the draw number handed to calculate_draw_date_from_number
  base,        \* outcome of calculate_draw_date_from_number(draw_no)
  shift,       \* days added to the draw date before it is converted back
  form,        \* how the date is handed on: "datetime", "/" or "-" text
  out,         \* outcome of the function applied last
  call,                \* reconciliation: the function in progress ("" when idle)
  ocr_draw_number,     \* its first argument
  ocr_issue_date,      \* its second argument
  latest_lotto_info,   \* its third argument
  api_answer,          \* what the provider answered during the call (None: not asked)
  validation_result,   \* its outcome: the report returned, or the exception raised
  pc,                  \* request handler: where the request stands ("" when none)
  endpoint,            \* the handler serving it
  h_draw_number,       \* the handler's local draw_number
  h_issue_date,        \* the handler's local issue_date
  h_draw_date,         \* the handler's local draw_date
  h_payment_deadline,  \* the handler's local payment_deadline
  page_answer,         \* the provider's answer to the results-page request
  latest_answer,       \* the provider's answer to the latest draw's record request
  response,            \* the HTTP status the handler answered with (0: not yet)
  earlier,             \* a caller's record of a finished validate_ocr_results call
  answered,            \* a client's record of an answered request
  files,               \* saved analyses: the files of STORAGE_DIR, by file name
  before,              \* the files as they were when the last store request came in
  issued,              \* the ids uuid4 has produced
  saved,               \* by id: the record of each save that answered with the id,
                       \* until the id is deleted
  removed,             \* the ids a delete request has removed
  now,                 \* the clock datetime.now() reads
  store_op,            \* the last store request ("" before any)
  store_id,            \* the id it named (<<>>: none)
  store_answer         \* what it was answered

dateVars == <<fn, draw_no, base, shift, form, out>>
callVars ==
  <<call, ocr_draw_number, ocr_issue_date, latest_lotto_info, api_answer, validation_result>>
handlerVars ==
  <<pc, endpoint, h_draw_number, h_issue_date, h_draw_date, h_payment_deadline,
    page_answer, latest_answer, response>>
storeVars == <<files, before, issued, saved, removed, now, store_op, store_id, store_answer>>
vars == <<dateVars, callVars, handlerVars, earlier, answered, storeVars>>

\* ------------------------------------------------- backend/lotto_validation.py
\* datetime(2002, 12, 7), as its ordinal
get_first_lotto_date == Ymd2Ord(2002, 12, 7)

\* The datetime a date argument stands for: strptime of a str (ValueError when it
\* does not parse), the argument itself otherwise.
ParseDateArg(x) ==
  IF x.t = "str"
  THEN (IF Contains(x.s, "/") THEN Strptime(x.s, "/") ELSE Strptime(x.s, "-"))
  ELSE Returned(x)

\* mutant: the week count rounds up instead of down
WeeksBetween_ceil(first_draw, target_date) == (target_date - first_draw + 6) \div 7
\* lotto_validation.py 30-31: whole weeks from the first draw to the target date
WeeksBetween(first_draw, target_date) == (target_date - first_draw) \div 7

\* mutant: the draw number counts from 0
DrawNumberOfTarget_zero_based(target) ==
  IF target.exc = "ValueError" THEN Returned(NoneV)
  ELSE IF target.val.t # "datetime" THEN Returned(NoneV)
  ELSE IF target.val.v < get_first_lotto_date THEN Returned(NoneV)
  ELSE Returned(IntV(WeeksBetween(get_first_lotto_date, target.val.v)))
\* mutant: a date before the first draw is not turned away
DrawNumberOfTarget_no_epoch_check(target) ==
  IF target.exc = "ValueError" THEN Returned(NoneV)
  ELSE IF target.val.t # "datetime" THEN Returned(NoneV)
  ELSE Returned(IntV(1 + WeeksBetween(get_first_lotto_date, target.val.v)))
\* lotto_validation.py 23-36, for the outcome of the date parsing
DrawNumberOfTarget(target) ==
  IF target.exc = "ValueError" THEN Returned(NoneV)
  \* a non-datetime compared with a datetime: TypeError, caught
  ELSE IF target.val.t # "datetime" THEN Returned(NoneV)
  ELSE IF target.val.v < get_first_lotto_date THEN Returned(NoneV)
  ELSE Returned(IntV(1 + WeeksBetween(get_first_lotto_date, target.val.v)))

calculate_draw_number_from_date(date_str) == DrawNumberOfTarget(ParseDateArg(date_str))

\* mutant: one week too many is added
WeeksToAdd_off_by_one(draw_number) == draw_number
\* lotto_validation.py 47
WeeksToAdd(draw_number) == draw_number - 1

\* mutant: only a falsy draw number is turned away, a negative one is not
calculate_draw_date_from_number_falsy_only(draw_number) ==
  IF ~Truthy(draw_number) THEN Returned(NoneV)
  ELSE IF draw_number.t # "int" THEN Returned(NoneV)
  ELSE AddDays(get_first_lotto_date, 7 * WeeksToAdd(draw_number.v))
\* lotto_validation.py 38-53
calculate_draw_date_from_number(draw_number) ==
  IF ~Truthy(draw_number) THEN Returned(NoneV)
  \* str or datetime compared with 1: TypeError, caught
  ELSE IF draw_number.t # "int" THEN Returned(NoneV)
  ELSE IF draw_number.v < 1 THEN Returned(NoneV)
  ELSE AddDays(get_first_lotto_date, 7 * WeeksToAdd(draw_number.v))

\* mutant: Sunday is not folded to 0, so a Sunday resolves to the day before
DaysSinceSunday_unfolded(purchase_date) == Weekday(purchase_date) + 1
\* lotto_validation.py 66-68: Sunday = 0 .. Saturday = 6
DaysSinceSunday(purchase_date) ==
  IF Weekday(purchase_date) + 1 = 7 THEN 0 ELSE Weekday(purchase_date) + 1

\* mutant: a Saturday purchase is moved on to the Saturday after
SaturdayOf_next_week(purchase_date, days_since_sunday) ==
  IF days_since_sunday = 6 THEN AddDays(purchase_date, 7)
  ELSE AddDays(purchase_date, 6 - days_since_sunday)
\* lotto_validation.py 71-75: the Saturday a purchase date belongs to
SaturdayOf(purchase_date, days_since_sunday) ==
  IF days_since_sunday = 6 THEN Returned(DateTimeV(purchase_date))
  ELSE AddDays(purchase_date, 6 - days_since_sunday)

\* lotto_validation.py 78: OverflowError of the addition is not caught
DrawNumberOfSaturday(saturday) ==
  IF saturday.exc # "" THEN saturday ELSE calculate_draw_number_from_date(saturday.val)

\* mutant: the draw number is taken of the purchase date itself, not of its Saturday
PurchaseOfParsed_unresolved(parsed) ==
  IF parsed.exc = "ValueError" THEN Returned(NoneV)
  ELSE calculate_draw_number_from_date(parsed.val)
\* mutant: the purchase date itself, not its Saturday, is held against the first draw
PurchaseOfParsed_own_date(parsed) ==
  IF parsed.exc = "ValueError" THEN Returned(NoneV)
  ELSE IF parsed.val.v < get_first_lotto_date THEN Returned(NoneV)
  ELSE DrawNumberOfSaturday(SaturdayOf(parsed.val.v, DaysSinceSunday(parsed.val.v)))
\* lotto_validation.py 57-81, for the outcome of the date parsing
PurchaseOfParsed(parsed) ==
  IF parsed.exc = "ValueError" THEN Returned(NoneV)
  ELSE DrawNumberOfSaturday(SaturdayOf(parsed.val.v, DaysSinceSunday(parsed.val.v)))

calculate_draw_number_from_purchase_date(purchase_date_str) ==
  \* "'/' in x" on a non-str: TypeError, caught
  IF purchase_date_str.t # "str" THEN Returned(NoneV)
  ELSE PurchaseOfParsed(ParseDateArg(purchase_date_str))

\* -------------------------------------------------------------- backend/main.py
\* The latest-draw record handed to reconciliation: None, or a dict that holds
\* the keys in `keys` (a dict without keys is the empty dict).
NoLatest == [t |-> "none", keys |-> {}, draw_no |-> NoneV, draw_date |-> NoneV]
LatestDict(keys, no, date) ==
  [t |-> "dict", keys |-> keys,
   draw_no |-> IF "draw_no" \in keys THEN no ELSE NoneV,
   draw_date |-> IF "draw_date" \in keys THEN date ELSE NoneV]
\* One entry of validation_messages: which check wrote it and the two values
\* its text names
Message(kind, a, b) == [kind |-> kind, a |-> a, b |-> b]

\* main.py 2441-2447
\* mutant: the message list is one object shared by all calls (a mutable default)
NewValidationResult_shared_messages(d, i) ==
  [draw_number_valid |-> TRUE,
   issue_date_valid |-> TRUE,
   corrected_draw_number |-> d,
   corrected_issue_date |-> i,
   validation_messages |-> IF earlier.set /\ earlier.report.exc = ""
                           THEN earlier.report.val.validation_messages
                           ELSE <<>>]
NewValidationResult(d, i) ==
  [draw_number_valid |-> TRUE,
   issue_date_valid |-> TRUE,
   corrected_draw_number |-> d,
   corrected_issue_date |-> i,
   validation_messages |-> <<>>]

AddMessage(vr, m) == [vr EXCEPT !.validation_messages = Append(@, m)]

\* main.py 2465: the OCR draw number as an int, or ValueError
OcrDrawInt(d) == PyInt(Strip(Replace(Replace(PyStr(d), Hoe, <<>>), Je, <<>>)))

\* mutant: a draw number equal to the latest one is rejected too
DrawNumberVerdict_ge(vr, d, ocr_draw_int, latest_draw_no) ==
  IF ocr_draw_int.exc # ""
  THEN AddMessage(vr, Message("draw_number_parse_failed", d, NoneV))
  ELSE IF latest_draw_no.t # "int"
  THEN AddMessage(vr, Message("draw_number_parse_failed", d, NoneV))
  ELSE IF ocr_draw_int.val.v >= latest_draw_no.v
  THEN AddMessage([vr EXCEPT !.draw_number_valid = FALSE,
                             !.corrected_draw_number = latest_draw_no],
                  Message("draw_number_failed", ocr_draw_int.val, latest_draw_no))
  ELSE AddMessage(vr, Message("draw_number_passed", ocr_draw_int.val, latest_draw_no))

\* main.py 2467-2479
DrawNumberVerdict(vr, d, ocr_draw_int, latest_draw_no) ==
  IF ocr_draw_int.exc # ""
  THEN AddMessage(vr, Message("draw_number_parse_failed", d, NoneV))
  \* an int compared with a non-int latest draw number: TypeError, caught
  ELSE IF latest_draw_no.t # "int"
  THEN AddMessage(vr, Message("draw_number_parse_failed", d, NoneV))
  ELSE IF ocr_draw_int.val.v > latest_draw_no.v
  THEN AddMessage([vr EXCEPT !.draw_number_valid = FALSE,
                             !.corrected_draw_number = latest_draw_no],
                  Message("draw_number_failed", ocr_draw_int.val, latest_draw_no))
  ELSE AddMessage(vr, Message("draw_number_passed", ocr_draw_int.val, latest_draw_no))

\* main.py 2462-2479: the draw-number bound check
CheckDrawNumber(vr, d, latest_draw_no) ==
  IF ~Truthy(d) THEN vr ELSE DrawNumberVerdict(vr, d, OcrDrawInt(d), latest_draw_no)

\* main.py 2485: the OCR issue date with "-" read as "/"
OcrDateStr(i) == Strip(Replace(PyStr(i), "-", <<"/">>))
\* main.py 2486
OcrDate(i) == Strptime(OcrDateStr(i), "/")
\* main.py 2489: strptime of a non-str is a TypeError
LatestDate(latest_draw_date) ==
  IF latest_draw_date.t = "str" THEN Strptime(latest_draw_date.s, "-")
  ELSE Raised("TypeError")

\* mutant: the corrected issue date is the latest draw date as the provider wrote it
IssueDateVerdict_raw(vr, i, ocr_date, latest_draw_date, latest_date) ==
  IF ocr_date.exc # "" \/ latest_date.exc # ""
  THEN AddMessage(vr, Message("issue_date_parse_failed", i, NoneV))
  ELSE IF ocr_date.val.v > latest_date.val.v
  THEN AddMessage([vr EXCEPT !.issue_date_valid = FALSE,
                             !.corrected_issue_date = latest_draw_date],
                  Message("issue_date_failed", StrV(OcrDateStr(i)), latest_draw_date))
  ELSE AddMessage(vr, Message("issue_date_passed", StrV(OcrDateStr(i)), latest_draw_date))

\* mutant: the issue-date step sets the draw number's flag (a copied line)
IssueDateVerdict_wrong_flag(vr, i, ocr_date, latest_draw_date, latest_date) ==
  IF ocr_date.exc # "" \/ latest_date.exc # ""
  THEN AddMessage(vr, Message("issue_date_parse_failed", i, NoneV))
  ELSE IF ocr_date.val.v > latest_date.val.v
  THEN AddMessage([vr EXCEPT !.draw_number_valid = FALSE,
                             !.corrected_issue_date =
                                StrV(Replace(latest_draw_date.s, "-", <<"/">>))],
                  Message("issue_date_failed", StrV(OcrDateStr(i)), latest_draw_date))
  ELSE AddMessage(vr, Message("issue_date_passed", StrV(OcrDateStr(i)), latest_draw_date))

\* main.py 2491-2504
IssueDateVerdict(vr, i, ocr_date, latest_draw_date, latest_date) ==
  IF ocr_date.exc # "" \/ latest_date.exc # ""
  THEN AddMessage(vr, Message("issue_date_parse_failed", i, NoneV))
  ELSE IF ocr_date.val.v > latest_date.val.v
  THEN AddMessage([vr EXCEPT !.issue_date_valid = FALSE,
                             !.corrected_issue_date =
                                StrV(Replace(latest_draw_date.s, "-", <<"/">>))],
                  Message("issue_date_failed", StrV(OcrDateStr(i)), latest_draw_date))
  ELSE AddMessage(vr, Message("issue_date_passed", StrV(OcrDateStr(i)), latest_draw_date))

\* mutant: one try block around both checks - after a draw number that does not
\* parse the issue date is not looked at
CheckIssueDate_one_try(vr, i, latest_draw_date) ==
  IF ~(Truthy(i) /\ Truthy(latest_draw_date)) THEN vr
  ELSE IF \E k \in 1..Len(vr.validation_messages) :
            vr.validation_messages[k].kind = "draw_number_parse_failed"
  THEN vr
  ELSE IssueDateVerdict(vr, i, OcrDate(i), latest_draw_date, LatestDate(latest_draw_date))

\* main.py 2481-2504: the issue-date bound check
CheckIssueDate(vr, i, latest_draw_date) ==
  IF ~(Truthy(i) /\ Truthy(latest_draw_date)) THEN vr
  ELSE IssueDateVerdict(vr, i, OcrDate(i), latest_draw_date, LatestDate(latest_draw_date))

\* mutant: only None counts as "no latest record"; an empty dict is looked into
LatestTruthy_none_only(latest) == latest.t = "dict"

\* "if not latest_lotto_info": None and the empty dict are falsy
LatestTruthy(latest) == latest.t = "dict" /\ latest.keys # {}

validate_ocr_results(d, i, latest) ==
  IF ~LatestTruthy(latest)
  THEN Returned(AddMessage(NewValidationResult(d, i), Message("skipped", NoneV, NoneV)))
  \* latest_lotto_info["draw_no"], latest_lotto_info["draw_date"]: KeyError
  ELSE IF ~({"draw_no", "draw_date"} \subseteq latest.keys) THEN Raised("KeyError")
  ELSE Returned(CheckIssueDate(CheckDrawNumber(NewValidationResult(d, i), d, latest.draw_no),
                               i, latest.draw_date))

\* What requests.get(results page) gives: an exception, or a response with a
\* status whose text holds "<strong>N[hoe]</strong>" (match) or does not.
PageAnswer(exc, status, match, n) == [exc |-> exc, status |-> status, match |-> match, n |-> n]
\* no request has been made
NoPage == PageAnswer("unasked", 0, FALSE, 0)

\* response.raise_for_status(): HTTPError for a 4xx or 5xx status
RaiseForStatus(status) == IF status >= 400 THEN Raised("HTTPError") ELSE Returned(NoneV)

\* main.py 2419-2431: the latest draw's record request and what is made of it
LatestFromApi(latest_draw_no, api) ==
  IF api.exc # "" THEN Raised(api.exc)
  ELSE IF RaiseForStatus(api.status).exc # "" THEN RaiseForStatus(api.status)
  ELSE IF ~api.json THEN Raised("JSONDecodeError")
  ELSE IF api.returnValue = "success"
  THEN Returned(LatestDict({"draw_no", "draw_date", "success"},
                           IntV(latest_draw_no), api.drwNoDate))
  ELSE Returned(NoLatest)

\* main.py 2405-2431: the body of the try block
LatestLottoInfoBody(page, api) ==
  IF page.exc # "" THEN Raised(page.exc)
  ELSE IF RaiseForStatus(page.status).exc # "" THEN RaiseForStatus(page.status)
  ELSE IF ~page.match THEN Returned(NoLatest)
  ELSE LatestFromApi(page.n, api)

\* mutant: only the transport's own exceptions are caught
CatchException_requests_only(outcome) ==
  IF outcome.exc \in {"Timeout", "ConnectionError"} THEN Returned(NoLatest) ELSE outcome

\* main.py 2433-2435: "except Exception" answers None
CatchException(outcome) == IF outcome.exc # "" THEN Returned(NoLatest) ELSE outcome

get_latest_lotto_info(page, api) == CatchException(LatestLottoInfoBody(page, api))

\* main.py 1212-1219: payment start = draw date + 1 day, deadline = start + 365 days
DeadlineOfStart(payment_start_date) ==
  IF payment_start_date.exc # "" THEN payment_start_date
  ELSE AddDays(payment_start_date.val.v, 365)
FormatDeadline(deadline) ==
  IF deadline.exc # "" THEN deadline ELSE Returned(StrV(Strftime(deadline.val.v, "/")))
DeadlineOfDraw(draw_datetime) ==
  \* neither form parses: ValueError, caught, None
  IF draw_datetime.exc # "" THEN Returned(NoneV)
  ELSE FormatDeadline(DeadlineOfStart(AddDays(draw_datetime.val.v, 1)))
\* main.py 1205-1210: "%Y-%m-%d" first, "%Y/%m/%d" when that is a ValueError
ParseDrawDate(cs) == IF Strptime(cs, "-").exc = "" THEN Strptime(cs, "-") ELSE Strptime(cs, "/")

calculate_payment_deadline(d) ==
  \* strptime of a non-str: TypeError, which "except ValueError" lets through
  IF d.t # "str" THEN Raised("TypeError") ELSE DeadlineOfDraw(ParseDrawDate(d.s))

\* ------------------------------------- backend/lotto_validation.py, the checks
\* A (bool, message) pair returned by the two consistency checks
Verdict(ok, kind, a, b) == [ok |-> ok, msg |-> Message(kind, a, b)]

\* mutant: the dates are compared as text, the calculated one written YYYY-MM-DD
validate_draw_number_with_draw_date_as_text(draw_number, draw_date_str) ==
  IF ~Truthy(draw_number) \/ ~Truthy(draw_date_str)
  THEN Verdict(FALSE, "draw_date_missing", NoneV, NoneV)
  ELSE IF calculate_draw_date_from_number(draw_number).exc # ""
  THEN Verdict(FALSE, "draw_date_error", draw_number, draw_date_str)
  ELSE IF ~Truthy(calculate_draw_date_from_number(draw_number).val)
  THEN Verdict(FALSE, "draw_date_not_computed", draw_number, NoneV)
  ELSE IF draw_date_str.t # "str" \/ ParseDateArg(draw_date_str).exc # ""
  THEN Verdict(FALSE, "draw_date_error", draw_number, draw_date_str)
  ELSE IF Strftime(calculate_draw_date_from_number(draw_number).val.v, "-") = draw_date_str.s
  THEN Verdict(TRUE, "draw_date_match", draw_number,
               StrV(Strftime(calculate_draw_date_from_number(draw_number).val.v, "/")))
  ELSE Verdict(FALSE, "draw_date_mismatch",
               StrV(Strftime(calculate_draw_date_from_number(draw_number).val.v, "/")),
               StrV(Strftime(ParseDateArg(draw_date_str).val.v, "/")))

\* lotto_validation.py 83-107
validate_draw_number_with_draw_date(draw_number, draw_date_str) ==
  IF ~Truthy(draw_number) \/ ~Truthy(draw_date_str)
  THEN Verdict(FALSE, "draw_date_missing", NoneV, NoneV)
  ELSE LET calculated_date == calculate_draw_date_from_number(draw_number)
       IN \* "except Exception" turns whatever is raised into a verdict
          IF calculated_date.exc # ""
          THEN Verdict(FALSE, "draw_date_error", draw_number, draw_date_str)
          ELSE IF ~Truthy(calculated_date.val)
          THEN Verdict(FALSE, "draw_date_not_computed", draw_number, NoneV)
          \* "'/' in x" on a non-str: TypeError
          ELSE IF draw_date_str.t # "str"
          THEN Verdict(FALSE, "draw_date_error", draw_number, draw_date_str)
          ELSE LET given_date == ParseDateArg(draw_date_str)
               IN IF given_date.exc # ""
                  THEN Verdict(FALSE, "draw_date_error", draw_number, draw_date_str)
                  ELSE IF calculated_date.val.v = given_date.val.v
                  THEN Verdict(TRUE, "draw_date_match", draw_number,
                               StrV(Strftime(calculated_date.val.v, "/")))
                  ELSE Verdict(FALSE, "draw_date_mismatch",
                               StrV(Strftime(calculated_date.val.v, "/")),
                               StrV(Strftime(given_date.val.v, "/")))

\* mutant: a draw number that could not be computed is compared like any other
validate_purchase_date_with_draw_number_unguarded(purchase_date_str, draw_number) ==
  IF ~Truthy(purchase_date_str) \/ ~Truthy(draw_number)
  THEN Verdict(FALSE, "purchase_missing", NoneV, NoneV)
  ELSE IF calculate_draw_number_from_purchase_date(purchase_date_str).exc # ""
  THEN Verdict(FALSE, "purchase_error", purchase_date_str, draw_number)
  ELSE IF calculate_draw_number_from_purchase_date(purchase_date_str).val = draw_number
  THEN Verdict(TRUE, "purchase_match", purchase_date_str, draw_number)
  ELSE Verdict(FALSE, "purchase_mismatch",
               calculate_draw_number_from_purchase_date(purchase_date_str).val, draw_number)

\* lotto_validation.py 109-127
validate_purchase_date_with_draw_number(purchase_date_str, draw_number) ==
  IF ~Truthy(purchase_date_str) \/ ~Truthy(draw_number)
  THEN Verdict(FALSE, "purchase_missing", NoneV, NoneV)
  ELSE LET calculated_draw_number == calculate_draw_number_from_purchase_date(purchase_date_str)
       IN IF calculated_draw_number.exc # ""
          THEN Verdict(FALSE, "purchase_error", purchase_date_str, draw_number)
          ELSE IF ~Truthy(calculated_draw_number.val)
          THEN Verdict(FALSE, "purchase_not_computed", purchase_date_str, NoneV)
          ELSE IF calculated_draw_number.val = draw_number
          THEN Verdict(TRUE, "purchase_match", purchase_date_str, draw_number)
          ELSE Verdict(FALSE, "purchase_mismatch", calculated_draw_number.val, draw_number)

\* What requests.get(...) of one draw's record gives: an exception, or a response
\* with a status, a body that is JSON or not, and the two fields read from it.
ApiAnswer(exc, status, json, returnValue, drwNoDate) ==
  [exc |-> exc, status |-> status, json |-> json,
   returnValue |-> returnValue, drwNoDate |-> drwNoDate]
\* no request has been made
NoAnswer == ApiAnswer("unasked", 0, FALSE, "", NoneV)

\* lotto_validation.py 148-178: draw number against the provider's draw date
RulesDrawDateStep(vr, final_draw_number, latest, api) ==
  IF ~(Truthy(final_draw_number) /\ Truthy(latest.draw_date)) THEN vr
  ELSE IF api.exc # "" \/ (api.status = 200 /\ ~api.json)
  THEN AddMessage(vr, Message("rules_draw_date_error", final_draw_number, NoneV))
  ELSE IF api.status # 200
  THEN AddMessage(vr, Message("rules_api_call_failed", final_draw_number, NoneV))
  ELSE IF api.returnValue # "success"
  THEN AddMessage(vr, Message("rules_api_answer_error", final_draw_number, NoneV))
  ELSE IF ~Truthy(api.drwNoDate)
  THEN AddMessage(vr, Message("rules_api_no_date", final_draw_number, NoneV))
  ELSE LET verdict == validate_draw_number_with_draw_date(final_draw_number, api.drwNoDate)
           vr1 == AddMessage(vr, verdict.msg)
           calculated_date == calculate_draw_date_from_number(final_draw_number)
       IN IF calculated_date.exc # ""
          THEN AddMessage(vr1, Message("rules_draw_date_error", final_draw_number, NoneV))
          ELSE IF ~Truthy(calculated_date.val) THEN vr1
          ELSE LET calc_str == StrV(Strftime(calculated_date.val.v, "-"))
               IN IF calc_str = api.drwNoDate
                  THEN AddMessage(vr1, Message("rules_calc_verified", final_draw_number, calc_str))
                  ELSE AddMessage(vr1, Message("rules_calc_differs", calc_str, api.drwNoDate))

\* mutant: a purchase date that belongs to another draw corrects the draw number
RulesPurchaseStep_correcting(vr, final_issue_date, final_draw_number) ==
  IF ~(Truthy(final_issue_date) /\ Truthy(final_draw_number)) THEN vr
  ELSE IF calculate_draw_number_from_purchase_date(final_issue_date).exc # ""
  THEN AddMessage(AddMessage(vr, validate_purchase_date_with_draw_number(
                                   final_issue_date, final_draw_number).msg),
                  Message("rules_purchase_error", final_issue_date, NoneV))
  ELSE IF Truthy(calculate_draw_number_from_purchase_date(final_issue_date).val)
          /\ calculate_draw_number_from_purchase_date(final_issue_date).val # final_draw_number
  THEN [AddMessage(AddMessage(vr, validate_purchase_date_with_draw_number(
                                    final_issue_date, final_draw_number).msg),
                   Message("rules_recommended_draw", final_issue_date,
                           calculate_draw_number_from_purchase_date(final_issue_date).val))
          EXCEPT !.draw_number_valid = FALSE,
                 !.corrected_draw_number =
                     calculate_draw_number_from_purchase_date(final_issue_date).val]
  ELSE AddMessage(vr, validate_purchase_date_with_draw_number(
                        final_issue_date, final_draw_number).msg)

\* lotto_validation.py 180-191: purchase date against the draw number
RulesPurchaseStep(vr, final_issue_date, final_draw_number) ==
  IF ~(Truthy(final_issue_date) /\ Truthy(final_draw_number)) THEN vr
  ELSE LET verdict == validate_purchase_date_with_draw_number(final_issue_date, final_draw_number)
           vr1 == AddMessage(vr, verdict.msg)
           calculated_draw_number == calculate_draw_number_from_purchase_date(final_issue_date)
       IN IF calculated_draw_number.exc # ""
          THEN AddMessage(vr1, Message("rules_purchase_error", final_issue_date, NoneV))
          ELSE IF Truthy(calculated_draw_number.val)
                  /\ calculated_draw_number.val # final_draw_number
          THEN AddMessage(vr1, Message("rules_recommended_draw", final_issue_date,
                                       calculated_draw_number.val))
          ELSE vr1

validate_ocr_with_draw_rules(d, i, latest, api) ==
  IF ~LatestTruthy(latest)
  THEN Returned(AddMessage(NewValidationResult(d, i), Message("rules_skipped", NoneV, NoneV)))
  ELSE Returned(RulesPurchaseStep(
                  RulesDrawDateStep(NewValidationResult(d, i), d, latest, api), i, d))

\* ---------------------------------------------------- schedule-function calls
DrawNumbers == {NoneV} \cup {IntV(n) : n \in (0 - 1)..MaxDrawN}
Shifts == (0 - MaxShift)..MaxShift
Forms == {"datetime", "/", "-"}

\* The date base + k days, handed on as a datetime or as text
Handed(ord, f) == IF f = "datetime" THEN DateTimeV(ord) ELSE StrV(Strftime(ord, f))

DatesIdle ==
  /\ fn = ""
  /\ draw_no = NoneV
  /\ base = Returned(NoneV)
  /\ shift = 0
  /\ form = "datetime"
  /\ out = Returned(NoneV)

CallIdle ==
  /\ call = ""
  /\ ocr_draw_number = NoneV
  /\ ocr_issue_date = NoneV
  /\ latest_lotto_info = NoLatest
  /\ api_answer = NoAnswer
  /\ validation_result = Returned(NoneV)

HandlerIdle ==
  /\ pc = ""
  /\ endpoint = ""
  /\ h_draw_number = NoneV
  /\ h_issue_date = NoneV
  /\ h_draw_date = NoneV
  /\ h_payment_deadline = NoneV
  /\ page_answer = NoPage
  /\ latest_answer = NoAnswer
  /\ response = 0

\* No finished call is on record
NoCall ==
  [set |-> FALSE, d |-> NoneV, i |-> NoneV, latest |-> NoLatest, report |-> Returned(NoneV)]
\* No answered request is on record
NoRequest ==
  [set |-> FALSE, endpoint |-> "", draw_number |-> NoneV, issue_date |-> NoneV,
   page |-> NoPage, latest |-> NoAnswer, lookup |-> NoAnswer,
   response |-> <<>>]
NothingKept == earlier = NoCall /\ answered = NoRequest

\* ----------------------------------- backend/main.py: saved-analysis store
\* main.py 2187: str(uuid.uuid4()); the ids it can produce
UuidIds == {<<"u">> \o DigitsOf(n) : n \in 1..MaxUuid}
\* mutant: uuid4 may produce an id it has produced before
uuid4_reissuing(produced) == UuidIds
\* uuid4 produces an id it has not produced before
uuid4(produced) == UuidIds \ produced
\* The ids a load or delete request can name: any uuid4 can produce, and one it cannot
RequestIds == UuidIds \cup {<<"x">>}

\* A JSON value is null, a number, a string or an array; json.dump writes a
\* Python value as the JSON value of its type, json.load reads it back.
JsonOf(x) ==
  [j |-> CASE x.t = "none" -> "null" [] x.t = "int" -> "number"
           [] x.t = "str" -> "string" [] x.t = "list" -> "array",
   v |-> x.v, s |-> x.s]
PyOf(x) ==
  [t |-> CASE x.j = "null" -> "none" [] x.j = "number" -> "int"
           [] x.j = "string" -> "str" [] x.j = "array" -> "list",
   v |-> x.v, s |-> x.s]

\* The analysis_result form field of a save request: text that is not JSON, a
\* JSON array, or a JSON object with none or all of the keys the store reads;
\* "[surrogate]" is a lone surrogate, which UTF-8 cannot encode.
AnalysisTexts ==
  {text \in
   {[j |-> kind, keys |-> keys,
    draw_number |-> dn,
    issue_date |-> [j |-> "null", v |-> 0, s |-> <<>>],
    draw_date |-> [j |-> "string", v |-> 0, s |-> Strftime(get_first_lotto_date, "-")],
    payment_deadline |-> [j |-> "null", v |-> 0, s |-> <<>>],
    extracted_combinations |-> [j |-> "array", v |-> 0, s |-> <<"1">>],
    extracted_amounts |-> [j |-> "array", v |-> 0, s |-> <<>>]] :
     kind \in {"malformed", "array", "object"},
     keys \in {{}, {"draw_number", "issue_date", "draw_date", "payment_deadline",
                    "extracted_combinations", "extracted_amounts"}},
     dn \in {[j |-> "number", v |-> 1, s |-> <<>>],
             [j |-> "string", v |-> 0, s |-> <<"[surrogate]">>]}} :
     text.j = "object" \/ (text.keys = {} /\ text.draw_number.j = "number")}

\* main.py 2099: json.loads(analysis_result)
json_loads(text) ==
  IF text.j = "malformed" THEN Raised("JSONDecodeError")
  ELSE Returned([t |-> IF text.j = "object" THEN "dict" ELSE "list",
                 keys |-> text.keys,
                 draw_number |-> PyOf(text.draw_number),
                 issue_date |-> PyOf(text.issue_date),
                 draw_date |-> PyOf(text.draw_date),
                 payment_deadline |-> PyOf(text.payment_deadline),
                 extracted_combinations |-> PyOf(text.extracted_combinations),
                 extracted_amounts |-> PyOf(text.extracted_amounts)])

\* main.py 2209: os.path.join(STORAGE_DIR, f"{analysis_id}.json"), within STORAGE_DIR
FileName(id) == id \o <<".", "j", "s", "o", "n">>

\* main.py 2194-2206: the record of a save; a key the analysis lacks reads as
\* None, or as [] for the two lists
SaveData(id, t, a) ==
  [id |-> StrV(id),
   timestamp |-> StrV(DigitsOf(t)),
   original_image |-> StrV(<<"A", "Q", "=", "=">>),
   analysis_result |->
     [draw_number |-> IF "draw_number" \in a.keys THEN a.draw_number ELSE NoneV,
      issue_date |-> IF "issue_date" \in a.keys THEN a.issue_date ELSE NoneV,
      draw_date |-> IF "draw_date" \in a.keys THEN a.draw_date ELSE NoneV,
      payment_deadline |->
        IF "payment_deadline" \in a.keys THEN a.payment_deadline ELSE NoneV,
      lotto_numbers |-> IF "extracted_combinations" \in a.keys
                        THEN a.extracted_combinations
                        ELSE [t |-> "list", v |-> 0, s |-> <<>>],
      amount |-> IF "extracted_amounts" \in a.keys
                 THEN a.extracted_amounts
                 ELSE [t |-> "list", v |-> 0, s |-> <<>>]]]

\* main.py 2210-2211: open(file_path, 'w', encoding='utf-8') and json.dump; the
\* file is there once opened, and holds a cut-off text when a string of the
\* analysis cannot be encoded (UnicodeEncodeError)
WriteFile(d) ==
  [readable |-> \A k \in DOMAIN d.analysis_result :
                  ~Contains(d.analysis_result[k].s, "[surrogate]"),
   id |-> JsonOf(d.id),
   timestamp |-> JsonOf(d.timestamp),
   original_image |-> JsonOf(d.original_image),
   analysis_result |->
     [k \in DOMAIN d.analysis_result |->
        IF \A q \in DOMAIN d.analysis_result :
             ~Contains(d.analysis_result[q].s, "[surrogate]")
        THEN JsonOf(d.analysis_result[k])
        ELSE [j |-> "cut", v |-> 0, s |-> <<>>]]]

\* main.py 2227-2228, 2243-2251: json.load of a file that holds a whole record
json_load(content) ==
  [id |-> PyOf(content.id),
   timestamp |-> PyOf(content.timestamp),
   original_image |-> PyOf(content.original_image),
   analysis_result |->
     [k \in DOMAIN content.analysis_result |-> PyOf(content.analysis_result[k])]]

\* mutant: removing one file empties the directory
os_remove_every_file(fs, name) == [p \in {} |-> fs[p]]
\* main.py 2150: os.remove(file_path)
os_remove(fs, name) == [p \in DOMAIN fs \ {name} |-> fs[p]]

\* What a store request is answered: the HTTP status, and of the body the
\* analysis_id, the analysis and the analyses where it has them
StoreAnswer(status, analysis_id, analysis, analyses) ==
  [status |-> status, analysis_id |-> analysis_id, analysis |-> analysis,
   analyses |-> analyses]

\* main.py 2220-2233 behind GET /api/saved-analyses/{analysis_id} (2128-2140)
load_analysis_result(fs, id) ==
  IF FileName(id) \notin DOMAIN fs THEN StoreAnswer(404, <<>>, NoneV, <<>>)
  ELSE IF ~fs[FileName(id)].readable THEN StoreAnswer(500, <<>>, NoneV, <<>>)
  ELSE StoreAnswer(200, <<>>, json_load(fs[FileName(id)]), <<>>)

\* main.py 2235-2262: the lists the function can return - the records of the
\* .json files that can be read, in any order os.listdir gives, then sorted by
\* timestamp, latest first (the sort is stable)
list_saved_analyses(fs) ==
  LET names == {p \in DOMAIN fs :
                  /\ Len(p) >= 5
                  /\ SubSeq(p, Len(p) - 4, Len(p)) = <<".", "j", "s", "o", "n">>
                  /\ fs[p].readable}
      count == Cardinality(names)
  IN {[k \in 1..count |-> json_load(fs[order[k]])] :
        order \in {o \in [1..count -> names] :
                     /\ \A a, b \in 1..count : a # b => o[a] # o[b]
                     /\ \A a, b \in 1..count :
                          a < b => DigitsValue(fs[o[a]].timestamp.s)
                                     >= DigitsValue(fs[o[b]].timestamp.s)}}

\* main.py 2180-2181: STORAGE_DIR is made empty; no request has come in
StoreIdle ==
  /\ files = <<>>
  /\ before = <<>>
  /\ issued = {}
  /\ saved = <<>>
  /\ removed = {}
  /\ now = 0
  /\ store_op = ""
  /\ store_id = <<>>
  /\ store_answer = StoreAnswer(0, <<>>, NoneV, <<>>)

InitDates == DatesIdle /\ CallIdle /\ HandlerIdle /\ NothingKept /\ StoreIdle

DrawDateFromNumber ==
  /\ fn = ""
  /\ \E n \in DrawNumbers :
       /\ draw_no' = n
       /\ base' = calculate_draw_date_from_number(n)
  /\ fn' = "calculate_draw_date_from_number"
  /\ out' = base'
  /\ UNCHANGED <<shift, form, callVars, handlerVars>>
  /\ UNCHANGED <<earlier, answered, storeVars>>

HasDrawDate == fn # "" /\ base.exc = "" /\ base.val.t = "datetime"

DrawNumberFromDate ==
  /\ HasDrawDate
  /\ fn' = "calculate_draw_number_from_date"
  /\ \E k \in Shifts, f \in Forms :
       /\ shift' = k
       /\ form' = f
       /\ out' = calculate_draw_number_from_date(Handed(base.val.v + k, f))
  /\ UNCHANGED <<draw_no, base, callVars, handlerVars>>
  /\ UNCHANGED <<earlier, answered, storeVars>>

DrawNumberFromPurchaseDate ==
  /\ HasDrawDate
  /\ fn' = "calculate_draw_number_from_purchase_date"
  /\ \E k \in Shifts, f \in Forms :
       /\ shift' = k
       /\ form' = f
       /\ out' = calculate_draw_number_from_purchase_date(Handed(base.val.v + k, f))
  /\ UNCHANGED <<draw_no, base, callVars, handlerVars>>
  /\ UNCHANGED <<earlier, answered, storeVars>>

\* The date the checks are tried around: the draw date of draw_no when it has
\* one, the first draw date otherwise
Anchor == IF HasDrawDate THEN base.val.v ELSE get_first_lotto_date

\* validate_draw_number_with_draw_date(draw_no, the anchor + k days)
DrawNumberWithDrawDate ==
  /\ fn # ""
  /\ fn' = "validate_draw_number_with_draw_date"
  /\ \E k \in Shifts, f \in Forms :
       /\ shift' = k
       /\ form' = f
       /\ out' = Returned(validate_draw_number_with_draw_date(draw_no, Handed(Anchor + k, f)))
  /\ UNCHANGED <<draw_no, base, callVars, handlerVars>>
  /\ UNCHANGED <<earlier, answered, storeVars>>

\* validate_purchase_date_with_draw_number(the anchor + k days, draw_no)
PurchaseDateWithDrawNumber ==
  /\ fn # ""
  /\ fn' = "validate_purchase_date_with_draw_number"
  /\ \E k \in Shifts, f \in Forms :
       /\ shift' = k
       /\ form' = f
       /\ out' = Returned(validate_purchase_date_with_draw_number(Handed(Anchor + k, f), draw_no))
  /\ UNCHANGED <<draw_no, base, callVars, handlerVars>>
  /\ UNCHANGED <<earlier, answered, storeVars>>

NextDates ==
  \/ DrawDateFromNumber
  \/ DrawNumberFromDate
  \/ DrawNumberFromPurchaseDate
  \/ DrawNumberWithDrawDate
  \/ PurchaseDateWithDrawNumber

SpecDates == InitDates /\ [][NextDates]_vars

\* ------------------------------------------------------- reconciliation calls
\* Text of a date as the OCR may deliver it
DateText(ord, f) ==
  CASE f = "/" -> Strftime(ord, "/")
    [] f = "-" -> Strftime(ord, "-")
    \* extract_issue_date's "YYYY/MM/DD (weekday)" form, main.py 1145-1148
    [] f = "weekday" -> Strftime(ord, "/") \o <<" ", "(", Il, ")">>
    \* month and day without their leading zero
    [] OTHER -> LET c == Ord2Ymd(ord)
                IN DigitsOf(c.y) \o <<"/">> \o DigitsOf(c.m) \o <<"/">> \o DigitsOf(c.d)
IssueForms == {"/", "-", "weekday", "short"}

\* The first draw's date is draw 1; the days around the draws a latest record names
IssueDays ==
  {get_first_lotto_date + k : k \in (0 - 1)..(7 * MaxLatest + 1)}
    \cup {get_first_lotto_date - 30, get_first_lotto_date + 30}

DrawPrefixes == {<<>>, <<Je, " ">>}
DrawSuffixes == {<<>>, <<Hoe>>, <<" ", Hoe>>, <<Hoe, Cha>>}
OcrDrawNumbers ==
  {NoneV, StrV(<<>>), StrV(<<Hoe>>), StrV(<<"x">>)}
    \cup {IntV(n) : n \in (0 - 1)..MaxOcrDraw}
    \cup {StrV(pre \o DigitsOf(n) \o suf) :
            pre \in DrawPrefixes, n \in 1..MaxOcrDraw, suf \in DrawSuffixes}
OcrIssueDates ==
  {NoneV, StrV(<<>>), StrV(<<"x">>)}
    \cup {StrV(DateText(o, f)) : o \in IssueDays, f \in IssueForms}

DrawDateText(n, sep) == StrV(Strftime(get_first_lotto_date + 7 * (n - 1), sep))
BothKeys == {"draw_no", "draw_date"}
\* what get_latest_lotto_info returns on success, main.py 2425-2429
WellFormedLatest == {LatestDict(BothKeys, IntV(n), DrawDateText(n, "-")) : n \in 1..MaxLatest}
MalformedLatest ==
  {LatestDict({"draw_date"}, NoneV, DrawDateText(MaxLatest, "-")),
   LatestDict({"draw_no"}, IntV(MaxLatest), NoneV),
   LatestDict(BothKeys, NoneV, DrawDateText(MaxLatest, "-")),
   LatestDict(BothKeys, StrV(DigitsOf(MaxLatest)), DrawDateText(MaxLatest, "-")),
   LatestDict(BothKeys, IntV(MaxLatest), NoneV),
   LatestDict(BothKeys, IntV(MaxLatest), DrawDateText(MaxLatest, "/")),
   LatestDict(BothKeys, IntV(MaxLatest), IntV(MaxLatest))}
AbsentLatest == {NoLatest, LatestDict({}, NoneV, NoneV)}
LatestInfos == AbsentLatest \cup WellFormedLatest \cup MalformedLatest

\* The provider's answers to the lookup of draw n
ApiAnswers(n) ==
  {ApiAnswer("Timeout", 0, FALSE, "", NoneV),
   ApiAnswer("", 500, FALSE, "", NoneV),
   ApiAnswer("", 200, FALSE, "", NoneV),
   ApiAnswer("", 200, TRUE, "fail", NoneV),
   ApiAnswer("", 200, TRUE, "success", NoneV),
   ApiAnswer("", 200, TRUE, "success", DrawDateText(n, "-")),
   ApiAnswer("", 200, TRUE, "success", DrawDateText(n, "/")),
   ApiAnswer("", 200, TRUE, "success", DrawDateText(n + 1, "-"))}

RulesDrawNumbers == {NoneV, StrV(<<"x">>)} \cup {IntV(n) : n \in (0 - 1)..MaxOcrDraw}
RulesIssueDates ==
  {NoneV, StrV(<<"x">>)} \cup {StrV(DateText(o, f)) : o \in IssueDays, f \in {"/", "-"}}
RulesLatest == AbsentLatest \cup WellFormedLatest
                 \cup {LatestDict({"draw_no"}, IntV(MaxLatest), NoneV)}

Init == DatesIdle /\ CallIdle /\ HandlerIdle /\ NothingKept /\ StoreIdle

ValidateOcrResults ==
  /\ call = ""
  /\ \E d \in OcrDrawNumbers, i \in OcrIssueDates, latest \in LatestInfos :
       /\ call' = "validate_ocr_results"
       /\ ocr_draw_number' = d
       /\ ocr_issue_date' = i
       /\ latest_lotto_info' = latest
       /\ validation_result' = validate_ocr_results(d, i, latest)
  /\ UNCHANGED <<api_answer, dateVars, handlerVars>>
  /\ UNCHANGED <<earlier, answered, storeVars>>

ValidateOcrWithDrawRules ==
  /\ call = ""
  /\ \E d \in RulesDrawNumbers, i \in RulesIssueDates, latest \in RulesLatest :
       \E api \in ApiAnswers(IF d.t = "int" THEN d.v ELSE 1) :
         /\ call' = "validate_ocr_with_draw_rules"
         /\ ocr_draw_number' = d
         /\ ocr_issue_date' = i
         /\ latest_lotto_info' = latest
         /\ api_answer' = api
         /\ validation_result' = validate_ocr_with_draw_rules(d, i, latest, api)
  /\ UNCHANGED <<dateVars, handlerVars>>
  /\ UNCHANGED <<earlier, answered, storeVars>>

\* The caller takes the report; nothing of the call is kept
Discard ==
  /\ call # ""
  /\ call' = ""
  /\ ocr_draw_number' = NoneV
  /\ ocr_issue_date' = NoneV
  /\ latest_lotto_info' = NoLatest
  /\ api_answer' = NoAnswer
  /\ validation_result' = Returned(NoneV)
  /\ UNCHANGED <<dateVars, handlerVars>>
  /\ UNCHANGED <<earlier, answered, storeVars>>

Next ==
  \/ ValidateOcrResults
  \/ ValidateOcrWithDrawRules
  \/ Discard

Spec == Init /\ [][Next]_vars

\* ------------------------------------------------------------- repeated calls
\* The calls a caller puts on record to compare a later call with
KeptDrawNumbers == {IntV(MaxOcrDraw), StrV(<<"2", Hoe, Cha>>)}
KeptIssueDates == {NoneV, StrV(DateText(get_first_lotto_date + 30, "/"))}
KeptLatest == {NoLatest, LatestDict(BothKeys, IntV(1), DrawDateText(1, "-"))}

\* main.py 2506: the call returns; this caller keeps its arguments and its report
Keep ==
  /\ call = "validate_ocr_results"
  /\ ~earlier.set
  /\ ocr_draw_number \in KeptDrawNumbers
  /\ ocr_issue_date \in KeptIssueDates
  /\ latest_lotto_info \in KeptLatest
  /\ earlier' = [set |-> TRUE, d |-> ocr_draw_number, i |-> ocr_issue_date,
                 latest |-> latest_lotto_info, report |-> validation_result]
  /\ call' = ""
  /\ ocr_draw_number' = NoneV
  /\ ocr_issue_date' = NoneV
  /\ latest_lotto_info' = NoLatest
  /\ api_answer' = NoAnswer
  /\ validation_result' = Returned(NoneV)
  /\ UNCHANGED <<dateVars, handlerVars, answered, storeVars>>

NextRepeat ==
  \/ ValidateOcrResults
  \/ Keep
  \/ Discard

SpecRepeat == Init /\ [][NextRepeat]_vars

\* ------------------------------------------------- payment deadline calls
DeadlineForms == {"/", "-", "weekday"}

\* calculate_payment_deadline(the draw date of draw n, as text)
PaymentDeadline ==
  /\ fn' = "calculate_payment_deadline"
  /\ \E n \in 1..MaxDeadlineDraw, f \in DeadlineForms :
       /\ draw_no' = IntV(n)
       /\ base' = Returned(DateTimeV(get_first_lotto_date + 7 * (n - 1)))
       /\ form' = f
       /\ out' = calculate_payment_deadline(StrV(DateText(get_first_lotto_date + 7 * (n - 1), f)))
  /\ shift' = 0
  /\ UNCHANGED <<callVars, handlerVars, earlier, answered, storeVars>>

NextDeadline == PaymentDeadline

SpecDeadline == InitDates /\ [][NextDeadline]_vars

\* ------------------------------------------------------------ request handlers
Endpoints == {"/transform-and-analyze", "/analyze"}

\* What the OCR extraction hands to the reconciliation part of a handler
HandlerDrawNumbers == {NoneV} \cup {IntV(n) : n \in 0..MaxOcrDraw}
HandlerIssueDays == {get_first_lotto_date + k : k \in {0, 7 * MaxLatest - 7, 7 * MaxLatest - 6}}
HandlerIssueDates ==
  {NoneV} \cup {StrV(DateText(o, f)) : o \in HandlerIssueDays, f \in {"/", "weekday"}}
\* /analyze reads a draw date off the ticket (main.py 612); the other handler does not
ExtractedDrawDates(e) ==
  IF e = "/analyze" THEN {NoneV, StrV(Strftime(get_first_lotto_date, "/"))} ELSE {NoneV}

PageAnswers ==
  {PageAnswer("Timeout", 0, FALSE, 0),
   PageAnswer("ConnectionError", 0, FALSE, 0),
   PageAnswer("", 500, FALSE, 0),
   PageAnswer("", 200, FALSE, 0)}
    \cup {PageAnswer("", 200, TRUE, n) : n \in 1..MaxLatest}
PageOk(page) == page.exc = "" /\ page.status < 400 /\ page.match

\* main.py 302-356 and 591-639: the values the extraction leaves in the locals
ReceiveOcr ==
  /\ pc = ""
  /\ pc' = "ocr_done"
  /\ \E e \in Endpoints :
       /\ endpoint' = e
       /\ h_draw_date' \in ExtractedDrawDates(e)
  /\ h_draw_number' \in HandlerDrawNumbers
  /\ h_issue_date' \in HandlerIssueDates
  /\ h_payment_deadline' = NoneV
  /\ UNCHANGED <<page_answer, latest_answer, response, callVars, dateVars>>
  /\ UNCHANGED <<earlier, answered, storeVars>>

\* The handler's "except Exception": HTTP 500
Fails(outcome) == outcome.exc # ""

\* main.py 478 and 698: await get_latest_lotto_info()
FetchLatest ==
  /\ pc = "ocr_done"
  /\ \E page \in PageAnswers :
       \E api \in (IF PageOk(page) THEN ApiAnswers(page.n) ELSE {NoAnswer}) :
         /\ page_answer' = page
         /\ latest_answer' = api
         /\ pc' = IF Fails(get_latest_lotto_info(page, api)) THEN "failed" ELSE "latest_fetched"
         /\ response' = IF Fails(get_latest_lotto_info(page, api)) THEN 500 ELSE 0
         /\ latest_lotto_info' = get_latest_lotto_info(page, api).val
  /\ UNCHANGED <<endpoint, h_draw_number, h_issue_date, h_draw_date, h_payment_deadline,
                 call, ocr_draw_number, ocr_issue_date, api_answer, validation_result, dateVars>>
  /\ UNCHANGED <<earlier, answered, storeVars>>

\* mutant: the report is printed but its corrections are not taken over
Applied_never(valid, corrected, local) == local
\* main.py 482-488 and 702-708: a field is replaced only when it was marked invalid
Applied(valid, corrected, local) == IF ~valid THEN corrected ELSE local

\* main.py 479-488 and 699-708: reconcile, then apply the corrections
ValidateAndApply ==
  /\ pc = "latest_fetched"
  /\ ocr_draw_number' = h_draw_number
  /\ ocr_issue_date' = h_issue_date
  /\ validation_result' = validate_ocr_results(h_draw_number, h_issue_date, latest_lotto_info)
  /\ IF Fails(validation_result')
     THEN /\ pc' = "failed"
          /\ response' = 500
          /\ UNCHANGED <<h_draw_number, h_issue_date>>
     ELSE /\ pc' = "validated"
          /\ response' = 0
          /\ h_draw_number' = Applied(validation_result'.val.draw_number_valid,
                                      validation_result'.val.corrected_draw_number,
                                      h_draw_number)
          /\ h_issue_date' = Applied(validation_result'.val.issue_date_valid,
                                     validation_result'.val.corrected_issue_date,
                                     h_issue_date)
  /\ UNCHANGED <<endpoint, h_draw_date, h_payment_deadline, page_answer, latest_answer,
                 call, latest_lotto_info, api_answer, dateVars>>
  /\ UNCHANGED <<earlier, answered, storeVars>>

\* main.py 500-505 and 720-725: the answer carries a usable draw date
HasApiDrawDate(api) ==
  /\ api.exc = ""
  /\ api.status = 200
  /\ api.json
  /\ api.returnValue = "success"
  /\ Truthy(api.drwNoDate)

\* main.py 496-523 and 716-743: draw date and payment deadline of the final draw
\* number, then the response (main.py 525-549 and 745-757)
LookupDrawDate ==
  /\ pc = "validated"
  /\ \E api \in (IF Truthy(h_draw_number)
                 THEN ApiAnswers(IF h_draw_number.t = "int" THEN h_draw_number.v ELSE 1)
                 ELSE {NoAnswer}) :
       /\ api_answer' = api
       /\ IF Truthy(h_draw_number) /\ HasApiDrawDate(api)
          THEN /\ h_draw_date' = api.drwNoDate
               \* an exception of the computation is caught: the deadline stays as it was
               /\ h_payment_deadline' =
                    IF Fails(calculate_payment_deadline(api.drwNoDate))
                    THEN h_payment_deadline
                    ELSE calculate_payment_deadline(api.drwNoDate).val
          ELSE UNCHANGED <<h_draw_date, h_payment_deadline>>
  /\ pc' = "responded"
  /\ response' = 200
  /\ UNCHANGED <<endpoint, h_draw_number, h_issue_date, page_answer, latest_answer,
                 call, ocr_draw_number, ocr_issue_date, latest_lotto_info,
                 validation_result, dateVars>>
  /\ UNCHANGED <<earlier, answered, storeVars>>

\* The request is over; the next one starts from fresh locals
Finish ==
  /\ pc \in {"responded", "failed"}
  /\ pc' = ""
  /\ endpoint' = ""
  /\ h_draw_number' = NoneV
  /\ h_issue_date' = NoneV
  /\ h_draw_date' = NoneV
  /\ h_payment_deadline' = NoneV
  /\ page_answer' = NoPage
  /\ latest_answer' = NoAnswer
  /\ response' = 0
  /\ ocr_draw_number' = NoneV
  /\ ocr_issue_date' = NoneV
  /\ latest_lotto_info' = NoLatest
  /\ api_answer' = NoAnswer
  /\ validation_result' = Returned(NoneV)
  /\ UNCHANGED <<call, dateVars>>
  /\ UNCHANGED <<earlier, answered, storeVars>>

NextHandler ==
  \/ ReceiveOcr
  \/ FetchLatest
  \/ ValidateAndApply
  \/ LookupDrawDate
  \/ Finish

SpecHandler == Init /\ [][NextHandler]_vars

\* ------------------------------------------------- the two handlers compared
\* main.py 525-549 and 745-757: the reconciled fields of the response body
ResponseBody == <<h_draw_number, h_issue_date, h_draw_date, h_payment_deadline, validation_result>>

\* The requests a client puts on record to compare a later answer with
KeptRequestDrawNumbers == {IntV(MaxOcrDraw)}
KeptRequestIssueDates == {NoneV}
KeptLatestAnswers == {ApiAnswer("", 200, TRUE, "success", DrawDateText(1, "-"))}

\* The request is over; this client keeps what was extracted, what the provider
\* answered and what /transform-and-analyze responded
KeepResponse ==
  /\ pc = "responded"
  /\ ~answered.set
  /\ endpoint = "/transform-and-analyze"
  /\ ocr_draw_number \in KeptRequestDrawNumbers
  /\ ocr_issue_date \in KeptRequestIssueDates
  /\ latest_answer \in KeptLatestAnswers
  /\ answered' = [set |-> TRUE, endpoint |-> endpoint,
                  draw_number |-> ocr_draw_number, issue_date |-> ocr_issue_date,
                  page |-> page_answer, latest |-> latest_answer, lookup |-> api_answer,
                  response |-> ResponseBody]
  /\ pc' = ""
  /\ endpoint' = ""
  /\ h_draw_number' = NoneV
  /\ h_issue_date' = NoneV
  /\ h_draw_date' = NoneV
  /\ h_payment_deadline' = NoneV
  /\ page_answer' = NoPage
  /\ latest_answer' = NoAnswer
  /\ response' = 0
  /\ ocr_draw_number' = NoneV
  /\ ocr_issue_date' = NoneV
  /\ latest_lotto_info' = NoLatest
  /\ api_answer' = NoAnswer
  /\ validation_result' = Returned(NoneV)
  /\ UNCHANGED <<call, dateVars, earlier, storeVars>>

NextBoth ==
  \/ ReceiveOcr
  \/ FetchLatest
  \/ ValidateAndApply
  \/ LookupDrawDate
  \/ Finish
  \/ KeepResponse

SpecBoth == Init /\ [][NextBoth]_vars

\* ===================================================================== claims
ValidDrawNo == draw_no.t = "int" /\ draw_no.v >= 1

\* C7: round trip - for every n >= 1 the draw date of n, handed back as the
\* datetime it is, converts to draw number n again.
C7_RoundTrip ==
  (fn = "calculate_draw_number_from_date" /\ ValidDrawNo /\ shift = 0 /\ form = "datetime")
    => out = Returned(IntV(draw_no.v))
C7_Witness ==
  /\ fn = "calculate_draw_number_from_date" /\ shift = 0 /\ form = "datetime"
  /\ draw_no = IntV(3) /\ out = Returned(IntV(3))

\* C8: window - for every n >= 1 and every k in 0..6 the date k days after the
\* draw date of n, in any accepted form, converts to draw number n.
C8_Window ==
  (fn = "calculate_draw_number_from_date" /\ ValidDrawNo /\ shift \in 0..6)
    => out = Returned(IntV(draw_no.v))
C8_Witness ==
  /\ fn = "calculate_draw_number_from_date" /\ shift = 6 /\ form = "/"
  /\ draw_no = IntV(2) /\ out = Returned(IntV(2))

\* C9: purchase window - for every n >= 1 every date from the Sunday six days
\* before the draw date of n through that Saturday, given as text, is a purchase
\* date of draw n (for n = 1 the window starts before the first draw).
C9_PurchaseWindow ==
  (fn = "calculate_draw_number_from_purchase_date" /\ ValidDrawNo
     /\ shift \in (0 - 6)..0 /\ form # "datetime")
    => out = Returned(IntV(draw_no.v))
C9_Witness ==
  /\ fn = "calculate_draw_number_from_purchase_date" /\ shift = 0 - 6 /\ form = "-"
  /\ draw_no = IntV(1) /\ out = Returned(IntV(1))

\* C10: the draw date of n >= 1 is 2002-12-07 plus exactly 7 * (n - 1) days (draw 1
\* on 2002-12-07, draw 2 on 2002-12-14), and it is always a Saturday.
C10_DrawDate ==
  (fn # "" /\ ValidDrawNo)
    => /\ base.exc = "" /\ base.val.t = "datetime"
       /\ base.val.v - Ymd2Ord(2002, 12, 7) = 7 * (draw_no.v - 1)
       /\ Weekday(base.val.v) = 5
       /\ draw_no.v = 1 => Ord2Ymd(base.val.v) = [y |-> 2002, m |-> 12, d |-> 7]
       /\ draw_no.v = 2 => Ord2Ymd(base.val.v) = [y |-> 2002, m |-> 12, d |-> 14]
C10_Witness ==
  /\ fn = "calculate_draw_date_from_number" /\ draw_no = IntV(5)
  /\ base.exc = "" /\ Ord2Ymd(base.val.v) = [y |-> 2003, m |-> 1, d |-> 4]

\* ------------------------------------------------- reconciliation: the report
Reconciled == call = "validate_ocr_results" /\ validation_result.exc = ""
Report == validation_result.val
LatestUsable == latest_lotto_info \in WellFormedLatest

\* The number a value names to a reader: an int itself, the digits of a text
DigitsIn(cs) == SelectSeq(cs, IsDigit)
NamesNumber(x) == x.t = "int" \/ (x.t = "str" /\ DigitsIn(x.s) # <<>>)
NumberNamed(x) == IF x.t = "int" THEN x.v ELSE DigitsValue(DigitsIn(x.s))

\* The date a text names to a reader: its leading YYYY?MM?DD, whatever follows
IsDateChar(c) == IsDigit(c) \/ c = "/"
RECURSIVE LeadingDate(_)
LeadingDate(cs) ==
  IF cs # <<>> /\ IsDateChar(cs[1]) THEN <<cs[1]>> \o LeadingDate(Tail(cs)) ELSE <<>>
DateNamed(x) ==
  IF x.t = "str" THEN Strptime(LeadingDate(Replace(x.s, "-", <<"/">>)), "/")
  ELSE Raised("TypeError")

MessagesOfKinds(kinds) == SelectSeq(Report.validation_messages, LAMBDA m : m.kind \in kinds)
DrawNumberMessages ==
  MessagesOfKinds({"draw_number_passed", "draw_number_failed", "draw_number_parse_failed"})
IssueDateMessages ==
  MessagesOfKinds({"issue_date_passed", "issue_date_failed", "issue_date_parse_failed"})

\* C1: monotone correction - on every path of reconcile, with a usable latest
\* record, the corrected draw number is not greater than the latest draw number
\* and the corrected issue date is not later than the latest draw date.
C1_MonotoneCorrection ==
  (Reconciled /\ LatestUsable)
    => /\ NamesNumber(Report.corrected_draw_number)
            => NumberNamed(Report.corrected_draw_number) <= latest_lotto_info.draw_no.v
       /\ DateNamed(Report.corrected_issue_date).exc = ""
            => DateNamed(Report.corrected_issue_date).val.v
                 <= LatestDate(latest_lotto_info.draw_date).val.v

\* C2: with a usable latest record and a present draw number that parses to v,
\* the number is rejected and replaced by the latest draw number exactly when
\* v > latest; otherwise (v = latest included) it is valid and unchanged; one
\* draw-number message is recorded either way.
C2_DrawNumberBound ==
  (Reconciled /\ LatestUsable /\ Truthy(ocr_draw_number) /\ OcrDrawInt(ocr_draw_number).exc = "")
    => /\ Len(DrawNumberMessages) = 1
       /\ IF OcrDrawInt(ocr_draw_number).val.v > latest_lotto_info.draw_no.v
          THEN /\ Report.draw_number_valid = FALSE
               /\ Report.corrected_draw_number = latest_lotto_info.draw_no
               /\ DrawNumberMessages[1] =
                    Message("draw_number_failed", OcrDrawInt(ocr_draw_number).val,
                            latest_lotto_info.draw_no)
          ELSE /\ Report.draw_number_valid = TRUE
               /\ Report.corrected_draw_number = ocr_draw_number
               /\ DrawNumberMessages[1].kind = "draw_number_passed"
C2_Witness ==
  /\ Reconciled /\ LatestUsable
  /\ ocr_draw_number = StrV(<<Je, " ", "2", " ", Hoe>>)
  /\ latest_lotto_info.draw_no = IntV(2)
  /\ Report.draw_number_valid

\* C3: with a usable latest draw date and a present issue date that parses, the
\* issue date is rejected and replaced by the latest draw date written
\* YYYY/MM/DD exactly when it is strictly after the latest draw date; an equal
\* or earlier issue date is valid and left as given.
C3_IssueDateBound ==
  (Reconciled /\ LatestUsable /\ Truthy(ocr_issue_date) /\ OcrDate(ocr_issue_date).exc = "")
    => IF OcrDate(ocr_issue_date).val.v > LatestDate(latest_lotto_info.draw_date).val.v
       THEN /\ Report.issue_date_valid = FALSE
            /\ Report.corrected_issue_date =
                 StrV(Strftime(LatestDate(latest_lotto_info.draw_date).val.v, "/"))
            /\ Len(IssueDateMessages) = 1
            /\ IssueDateMessages[1].kind = "issue_date_failed"
       ELSE /\ Report.issue_date_valid = TRUE
            /\ Report.corrected_issue_date = ocr_issue_date
            /\ Len(IssueDateMessages) = 1
            /\ IssueDateMessages[1].kind = "issue_date_passed"
C3_Witness ==
  /\ Reconciled /\ LatestUsable
  /\ ocr_issue_date = StrV(Strftime(get_first_lotto_date + 30, "-"))
  /\ latest_lotto_info.draw_no = IntV(2)
  /\ Report.issue_date_valid = FALSE
  /\ Report.corrected_issue_date = StrV(Strftime(get_first_lotto_date + 7, "/"))

\* C4: without a latest record (None, or a record without content) neither
\* reconciliation function checks anything: both flags are true, the corrected
\* fields are the inputs and the only message is the one saying it was skipped.
C4_SkippedWithoutLatest ==
  (call # "" /\ latest_lotto_info \in AbsentLatest)
    => /\ validation_result.exc = ""
       /\ Report.draw_number_valid = TRUE
       /\ Report.issue_date_valid = TRUE
       /\ Report.corrected_draw_number = ocr_draw_number
       /\ Report.corrected_issue_date = ocr_issue_date
       /\ Len(Report.validation_messages) = 1
       /\ Report.validation_messages[1].kind \in {"skipped", "rules_skipped"}
C4_Witness ==
  /\ call = "validate_ocr_results" /\ latest_lotto_info = LatestDict({}, NoneV, NoneV)
  /\ ocr_draw_number = IntV(MaxOcrDraw) /\ Truthy(ocr_issue_date)
  /\ validation_result.exc = "" /\ Len(Report.validation_messages) = 1

\* C5: reconciliation always ends by returning a report, never by an exception,
\* whatever the draw number, the issue date, the latest record (keys missing or
\* values malformed included) and the provider's answer are.
C5_AlwaysReturnsReport == call # "" => validation_result.exc = ""

\* ------------------------------------------------------ handlers and provider
LatestFetched == pc \in {"latest_fetched", "validated", "responded", "failed"}
\* The latest-draw request failed: timeout or transport error, error status,
\* page without a draw number, body that is no JSON, non-success answer
ProviderFailed ==
  \/ ~PageOk(page_answer)
  \/ latest_answer.exc # ""
  \/ latest_answer.status >= 400
  \/ ~latest_answer.json
  \/ latest_answer.returnValue # "success"

\* C6: whatever way the latest-draw request fails, get_latest_lotto_info returns
\* None without raising, reconciliation then takes the skipped path with the
\* OCR values untouched, and the handler still answers 200.
C6_ProviderFailureIsAbsentLatest ==
  (LatestFetched /\ ProviderFailed)
    => /\ pc # "failed"
       /\ latest_lotto_info = NoLatest
       /\ pc \in {"validated", "responded"}
            => /\ validation_result =
                    Returned(AddMessage(NewValidationResult(ocr_draw_number, ocr_issue_date),
                                        Message("skipped", NoneV, NoneV)))
               /\ h_draw_number = ocr_draw_number
               /\ h_issue_date = ocr_issue_date
       /\ pc = "responded" => response = 200
C6_Witness ==
  /\ pc = "responded" /\ response = 200
  /\ page_answer.exc = "" /\ page_answer.status = 200 /\ page_answer.match
  /\ latest_answer.exc = "" /\ latest_answer.status = 500
  /\ latest_lotto_info = NoLatest /\ Truthy(ocr_draw_number)

\* ------------------------------------------------------------- repeated calls
SameArguments ==
  /\ call = "validate_ocr_results"
  /\ earlier.set
  /\ earlier.d = ocr_draw_number
  /\ earlier.i = ocr_issue_date
  /\ earlier.latest = latest_lotto_info

IssueDateParsed == Truthy(ocr_issue_date) /\ OcrDate(ocr_issue_date).exc = ""
SlashDate(x) == x.t = "str" /\ ~Contains(x.s, "-") /\ Strptime(x.s, "/").exc = ""

\* C12: every date reconcile returns is written YYYY/MM/DD - the corrected issue
\* date has '/' separators both when it was replaced by the latest draw date and
\* when an issue date given as YYYY-MM-DD was accepted as valid.
C12_SlashDates ==
  (Reconciled /\ LatestUsable /\ IssueDateParsed) => SlashDate(Report.corrected_issue_date)

\* Text holding digits and something else besides
Decorated(x) == x.t = "str" /\ DigitsIn(x.s) # <<>> /\ ~AllDigits(x.s)

\* C13: a draw number given as digits with any non-digit decoration around them
\* is parsed to the integer the digits name and checked against the latest draw
\* number; it is never treated as a parse failure.
C13_DecorationStripped ==
  (Reconciled /\ LatestUsable /\ Decorated(ocr_draw_number))
    => /\ Len(DrawNumberMessages) = 1
       /\ DrawNumberMessages[1].kind # "draw_number_parse_failed"
       /\ Report.draw_number_valid
            = (NumberNamed(ocr_draw_number) <= latest_lotto_info.draw_no.v)

DrawNumberUnparsed == Truthy(ocr_draw_number) /\ OcrDrawInt(ocr_draw_number).exc # ""
DrawNumberParsed == Truthy(ocr_draw_number) /\ OcrDrawInt(ocr_draw_number).exc = ""
IssueDateUnparsed == Truthy(ocr_issue_date) /\ OcrDate(ocr_issue_date).exc # ""
Checked(messages, kinds) == Len(messages) = 1 /\ messages[1].kind \in kinds

\* C14: a draw number or an issue date that does not parse is recovered from
\* locally - the call returns, the field's flag stays true, its corrected value
\* is the raw input, one diagnostic message is recorded for it, and the other
\* field is checked all the same.
C14_ParseFailureIsLocal ==
  (call = "validate_ocr_results" /\ LatestUsable)
    => /\ validation_result.exc = ""
       /\ DrawNumberUnparsed
            => /\ Report.draw_number_valid = TRUE
               /\ Report.corrected_draw_number = ocr_draw_number
               /\ Checked(DrawNumberMessages, {"draw_number_parse_failed"})
               /\ IssueDateParsed
                    => Checked(IssueDateMessages, {"issue_date_passed", "issue_date_failed"})
       /\ IssueDateUnparsed
            => /\ Report.issue_date_valid = TRUE
               /\ Report.corrected_issue_date = ocr_issue_date
               /\ Checked(IssueDateMessages, {"issue_date_parse_failed"})
               /\ DrawNumberParsed
                    => Checked(DrawNumberMessages, {"draw_number_passed", "draw_number_failed"})
C14_Witness ==
  /\ Reconciled /\ LatestUsable
  /\ DrawNumberUnparsed /\ IssueDateParsed
  /\ Report.issue_date_valid = FALSE
  /\ Len(Report.validation_messages) = 2

\* ------------------------------------------------ schedule: the undefined cases
InvalidDrawNo == draw_no.t = "int" /\ draw_no.v < 1
\* The date handed to the function applied last
Target == base.val.v + shift
\* The first Saturday on or after a date
SaturdayOnOrAfter(ord) == ord + ((5 - Weekday(ord)) % 7)
NoDraw == Returned(NoneV)
IsDraw(outcome) == outcome.exc = "" /\ outcome.val.t = "int" /\ outcome.val.v >= 1

\* C15: for every n < 1 (zero and negative) calculate_draw_date_from_number
\* produces no date: the caller gets the failure value None, never a datetime.
C15_NoDateBelowOne ==
  (fn = "calculate_draw_date_from_number" /\ InvalidDrawNo)
    => base = NoDraw /\ out = NoDraw
C15_Witness ==
  /\ fn = "calculate_draw_date_from_number" /\ draw_no = IntV(0 - 1)
  /\ out = NoDraw

\* C16: calculate_draw_number_from_date gives None for every date before
\* 2002-12-07 and a draw number >= 1 for every date on or after it; it never
\* gives 0 or a negative number.
C16_NoDrawBeforeEpoch ==
  (fn = "calculate_draw_number_from_date")
    => IF Target < get_first_lotto_date THEN out = NoDraw ELSE IsDraw(out)
C16_Witness ==
  /\ fn = "calculate_draw_number_from_date" /\ draw_no = IntV(1) /\ shift = 0 - 1
  /\ out = NoDraw

\* C17: calculate_draw_number_from_purchase_date gives None exactly when the
\* Saturday of the purchase date is before 2002-12-07; 2002-12-01 through
\* 2002-12-06, before the first draw themselves, give draw 1.
C17_PurchaseBeforeEpoch ==
  (fn = "calculate_draw_number_from_purchase_date" /\ form # "datetime")
    => /\ (out = NoDraw) = (SaturdayOnOrAfter(Target) < get_first_lotto_date)
       /\ SaturdayOnOrAfter(Target) >= get_first_lotto_date => IsDraw(out)
       /\ (Target \in (get_first_lotto_date - 6)..(get_first_lotto_date - 1))
            => out = Returned(IntV(1))
C17_Witness ==
  /\ fn = "calculate_draw_number_from_purchase_date" /\ form = "/"
  /\ Ord2Ymd(Target) = [y |-> 2002, m |-> 12, d |-> 1]
  /\ out = Returned(IntV(1))

\* ------------------------------------------------------ schedule: the checks
\* The date handed to a check, and what the schedule says about it
Given == Anchor + shift
ExpectedDate == get_first_lotto_date + 7 * (draw_no.v - 1)
PurchaseDefined == SaturdayOnOrAfter(Given) >= get_first_lotto_date
ExpectedDraw == 1 + (SaturdayOnOrAfter(Given) - get_first_lotto_date) \div 7
VerdictOut == out.val

\* C18: validate_draw_number_with_draw_date(n, date) is true exactly when the
\* draw date of n and the given date are the same calendar date, in either
\* text form; otherwise, for valid n and a date that parses, it is false with
\* a message naming the expected and the given date.
C18_DrawDateCheck ==
  (fn = "validate_draw_number_with_draw_date" /\ ValidDrawNo /\ form # "datetime")
    => IF Given = ExpectedDate
       THEN VerdictOut.ok = TRUE /\ VerdictOut.msg.kind = "draw_date_match"
       ELSE /\ VerdictOut.ok = FALSE
            /\ VerdictOut.msg = Message("draw_date_mismatch",
                                        StrV(Strftime(ExpectedDate, "/")),
                                        StrV(Strftime(Given, "/")))
C18_Witness ==
  /\ fn = "validate_draw_number_with_draw_date" /\ draw_no = IntV(2)
  /\ shift = 0 /\ form = "/"
  /\ VerdictOut.ok = TRUE

\* C19: validate_purchase_date_with_draw_number(date, n) is true exactly when
\* the draw number of the purchase date is defined and equals n; undefined, it
\* is false with a diagnostic; defined but different, it is false with a
\* message naming the expected draw number and n.
C19_PurchaseCheck ==
  (fn = "validate_purchase_date_with_draw_number" /\ draw_no.t = "int" /\ form # "datetime")
    => /\ VerdictOut.ok = (PurchaseDefined /\ draw_no.v = ExpectedDraw)
       /\ (~PurchaseDefined /\ draw_no.v # 0)
            => VerdictOut.msg.kind = "purchase_not_computed"
       /\ (PurchaseDefined /\ draw_no.v # ExpectedDraw /\ draw_no.v # 0)
            => VerdictOut.msg = Message("purchase_mismatch", IntV(ExpectedDraw), draw_no)
C19_Witness ==
  /\ fn = "validate_purchase_date_with_draw_number" /\ draw_no = IntV(1)
  /\ shift = 0 - 7 /\ form = "-"
  /\ VerdictOut.ok = FALSE /\ VerdictOut.msg.kind = "purchase_not_computed"

\* C20: for an invalid n (n < 1) validate_draw_number_with_draw_date gives no
\* match and no mismatch verdict: it is false with a diagnostic saying the draw
\* date could not be had, and never true.
C20_InvalidDrawNoIsNoVerdict ==
  (fn = "validate_draw_number_with_draw_date" /\ InvalidDrawNo)
    => /\ VerdictOut.ok = FALSE
       /\ VerdictOut.msg.kind \in {"draw_date_missing", "draw_date_not_computed"}
C20_Witness ==
  /\ fn = "validate_draw_number_with_draw_date" /\ draw_no = IntV(0 - 1)
  /\ shift = 0 /\ form = "-"
  /\ VerdictOut.msg.kind = "draw_date_not_computed"

\* ------------------------------------------------------ handlers: end to end
\* The handler holds a latest record after reconciliation
LatestObtained == pc \in {"validated", "responded"} /\ LatestTruthy(latest_lotto_info)
LatestDateObtained == LatestObtained /\ LatestDate(latest_lotto_info.draw_date).exc = ""

\* C21: whenever the latest record was obtained, the handler's draw number is
\* not greater than the latest draw number - a greater one is replaced by it
\* before the draw-date lookup and so before the response.
C21_ResponseDrawNumberBound ==
  LatestObtained
    => /\ h_draw_number.t = "int" => h_draw_number.v <= latest_lotto_info.draw_no.v
       /\ (ocr_draw_number.t = "int" /\ ocr_draw_number.v > latest_lotto_info.draw_no.v)
            => h_draw_number = latest_lotto_info.draw_no
       /\ (ocr_draw_number.t = "int" /\ ocr_draw_number.v <= latest_lotto_info.draw_no.v)
            => h_draw_number = ocr_draw_number
C21_Witness ==
  /\ pc = "responded" /\ response = 200
  /\ ocr_draw_number = IntV(MaxOcrDraw)
  /\ latest_lotto_info.draw_no = IntV(MaxLatest)
  /\ h_draw_number = IntV(MaxLatest)

\* C22: whenever the latest record with its draw date was obtained, the issue
\* date in the handler's response is not later than the latest draw date, for
\* every form extract_issue_date produces, the one with a weekday included.
C22_ResponseIssueDateBound ==
  (pc = "responded" /\ LatestDateObtained /\ DateNamed(h_issue_date).exc = "")
    => DateNamed(h_issue_date).val.v <= LatestDate(latest_lotto_info.draw_date).val.v

\* ------------------------------------------------------- payment deadline
\* The same day and month one calendar year on
YearOn(c) == [y |-> c.y + 1, m |-> c.m, d |-> c.d]
PaymentStart == Ord2Ymd(base.val.v + 1)
StartHasYearOn == ~(PaymentStart.m = 2 /\ PaymentStart.d = 29)

\* C23: for a draw date that parses, in either text form, the payment deadline
\* is the draw date plus one day plus one calendar year, written YYYY/MM/DD,
\* also when a 29 February falls into that year; for text that does not parse
\* it is None.
C23_DeadlineOneYearOneDay ==
  (fn = "calculate_payment_deadline")
    => IF form = "weekday" THEN out = Returned(NoneV)
       ELSE StartHasYearOn => out = Returned(StrV(FormatYmd(YearOn(PaymentStart), "/")))

\* ------------------------------------------------- schedule: purchase dates
PurchaseCalled == fn = "calculate_draw_number_from_purchase_date" /\ form # "datetime"
\* Day of the week counted Sunday = 0 .. Saturday = 6
Dow(ord) == (Weekday(ord) + 1) % 7
\* The Saturday the function resolves the purchase date to
Resolved == SaturdayOf(Target, DaysSinceSunday(Target))

\* C24: the Saturday a purchase date d is resolved to is the earliest Saturday
\* on or after d - d itself when d is a Saturday, d + (6 - dow) days otherwise
\* (Sunday = 0 .. Saturday = 6) - so it is a Saturday within [d, d + 6], and
\* the draw number returned is that Saturday's.
C24_ResolvedSaturday ==
  PurchaseCalled
    => /\ Resolved.exc = ""
       /\ Resolved.val.v = Target + (6 - Dow(Target))
       /\ Weekday(Target) = 5 => Resolved.val.v = Target
       /\ Weekday(Resolved.val.v) = 5
       /\ Resolved.val.v \in Target..(Target + 6)
       /\ \A e \in Target..(Resolved.val.v - 1) : Weekday(e) # 5
       /\ out = calculate_draw_number_from_date(Resolved.val)
C24_Witness ==
  /\ PurchaseCalled /\ draw_no = IntV(2)
  /\ Dow(Target) = 0 /\ Resolved.val.v = Target + 6
  /\ out = Returned(IntV(3))

\* C27: for a purchase date d on or after 2002-12-07 the purchase draw number
\* is the draw number of d when d is a Saturday and that number plus one when
\* d is Sunday through Friday; the Sunday after draw n belongs to draw n + 1.
C27_PurchaseVersusDate ==
  (PurchaseCalled /\ Target >= get_first_lotto_date)
    => /\ IsDraw(out)
       /\ IsDraw(calculate_draw_number_from_date(Handed(Target, form)))
       /\ out.val.v = calculate_draw_number_from_date(Handed(Target, form)).val.v
                        + (IF Weekday(Target) = 5 THEN 0 ELSE 1)
       /\ (ValidDrawNo /\ shift = 1) => out = Returned(IntV(draw_no.v + 1))
C27_Witness ==
  /\ PurchaseCalled /\ draw_no = IntV(1) /\ shift = 1
  /\ Ord2Ymd(Target) = [y |-> 2002, m |-> 12, d |-> 8]
  /\ out = Returned(IntV(2))

\* ------------------------------------------- reconciliation: the two fields
DrawKinds == {"draw_number_passed", "draw_number_failed", "draw_number_parse_failed"}
IssueKinds == {"issue_date_passed", "issue_date_failed", "issue_date_parse_failed"}
MessagesIn(report, kinds) == SelectSeq(report.validation_messages, LAMBDA m : m.kind \in kinds)
\* What a report says about one field
DrawField(report) ==
  <<report.draw_number_valid, report.corrected_draw_number, MessagesIn(report, DrawKinds)>>
IssueField(report) ==
  <<report.issue_date_valid, report.corrected_issue_date, MessagesIn(report, IssueKinds)>>
\* The report after the draw-number step alone
AfterDrawStep ==
  CheckDrawNumber(NewValidationResult(ocr_draw_number, ocr_issue_date),
                  ocr_draw_number, latest_lotto_info.draw_no)
LatestRead == latest_lotto_info.t = "dict" /\ BothKeys \subseteq latest_lotto_info.keys

\* C25: the two field checks are independent - the draw-number step leaves the
\* issue date's flag and value alone, the issue-date step leaves the draw
\* number's flag and value alone, and what the report says about a field is
\* what it says when the other field is absent.
C25_FieldsIndependent ==
  (Reconciled /\ LatestRead)
    => /\ AfterDrawStep.issue_date_valid = TRUE
       /\ AfterDrawStep.corrected_issue_date = ocr_issue_date
       /\ Report.draw_number_valid = AfterDrawStep.draw_number_valid
       /\ Report.corrected_draw_number = AfterDrawStep.corrected_draw_number
       /\ DrawField(Report)
            = DrawField(validate_ocr_results(ocr_draw_number, NoneV, latest_lotto_info).val)
       /\ IssueField(Report)
            = IssueField(validate_ocr_results(NoneV, ocr_issue_date, latest_lotto_info).val)
C25_Witness ==
  /\ Reconciled /\ LatestUsable
  /\ Report.draw_number_valid = FALSE /\ Report.issue_date_valid = FALSE
  /\ Len(Report.validation_messages) = 2

\* ------------------------------------------------- the two handlers compared
SameRequestOtherHandler ==
  /\ pc = "responded"
  /\ answered.set
  /\ answered.endpoint # endpoint
  /\ answered.draw_number = ocr_draw_number
  /\ answered.issue_date = ocr_issue_date
  /\ answered.page = page_answer
  /\ answered.latest = latest_answer
  /\ answered.lookup = api_answer

\* C26: given the same extracted draw number and issue date and the same
\* provider answers, /transform-and-analyze and /analyze respond with the same
\* draw_number, issue_date, draw_date, payment_deadline and validation_result.
C26_HandlersAgree == SameRequestOtherHandler => ResponseBody = answered.response

\* ------------------------------------------------------ store requests
\* POST /api/save-analysis: main.py 2091-2113 with save_analysis_result 2183-2218
SaveAnalysis ==
  /\ uuid4(issued) # {}
  /\ \E text \in AnalysisTexts, id \in uuid4(issued), t \in now..MaxClock :
       /\ now' = t
       /\ IF json_loads(text).exc # ""
          THEN \* json.JSONDecodeError: 400, before anything is saved
               /\ store_answer' = StoreAnswer(400, <<>>, NoneV, <<>>)
               /\ UNCHANGED <<files, issued, saved>>
          ELSE IF json_loads(text).val.t # "dict"
          THEN \* the id is made, then analysis_result.get raises AttributeError
               /\ store_answer' = StoreAnswer(500, <<>>, NoneV, <<>>)
               /\ issued' = issued \cup {id}
               /\ UNCHANGED <<files, saved>>
          ELSE /\ issued' = issued \cup {id}
               /\ files' = [p \in DOMAIN files \cup {FileName(id)} |->
                              IF p = FileName(id)
                              THEN WriteFile(SaveData(id, t, json_loads(text).val))
                              ELSE files[p]]
               /\ IF WriteFile(SaveData(id, t, json_loads(text).val)).readable
                  THEN /\ store_answer' = StoreAnswer(200, id, NoneV, <<>>)
                       /\ saved' = [i \in DOMAIN saved \cup {id} |->
                                      IF i = id
                                      THEN SaveData(id, t, json_loads(text).val)
                                      ELSE saved[i]]
                  ELSE /\ store_answer' = StoreAnswer(500, <<>>, NoneV, <<>>)
                       /\ UNCHANGED saved
  /\ before' = files
  /\ store_op' = "save"
  /\ store_id' = <<>>
  /\ UNCHANGED <<removed, dateVars, callVars, handlerVars, earlier, answered>>

\* GET /api/saved-analyses/{analysis_id}: main.py 2128-2140
LoadAnalysis ==
  /\ \E id \in RequestIds :
       /\ store_id' = id
       /\ store_answer' = load_analysis_result(files, id)
  /\ before' = files
  /\ store_op' = "load"
  /\ UNCHANGED <<files, issued, saved, removed, now>>
  /\ UNCHANGED <<dateVars, callVars, handlerVars, earlier, answered>>

\* DELETE /api/saved-analyses/{analysis_id}: main.py 2142-2158
DeleteAnalysis ==
  /\ \E id \in RequestIds :
       /\ store_id' = id
       /\ IF FileName(id) \notin DOMAIN files
          THEN /\ store_answer' = StoreAnswer(404, <<>>, NoneV, <<>>)
               /\ UNCHANGED <<files, saved, removed>>
          ELSE /\ files' = os_remove(files, FileName(id))
               /\ store_answer' = StoreAnswer(200, <<>>, NoneV, <<>>)
               /\ saved' = [i \in DOMAIN saved \ {id} |-> saved[i]]
               /\ removed' = removed \cup {id}
  /\ before' = files
  /\ store_op' = "delete"
  /\ UNCHANGED <<issued, now>>
  /\ UNCHANGED <<dateVars, callVars, handlerVars, earlier, answered>>

\* GET /api/saved-analyses: main.py 2115-2126
ListAnalyses ==
  /\ \E analyses \in list_saved_analyses(files) :
       store_answer' = StoreAnswer(200, <<>>, NoneV, analyses)
  /\ before' = files
  /\ store_op' = "list"
  /\ store_id' = <<>>
  /\ UNCHANGED <<files, issued, saved, removed, now>>
  /\ UNCHANGED <<dateVars, callVars, handlerVars, earlier, answered>>

NextStore ==
  \/ SaveAnalysis
  \/ LoadAnalysis
  \/ DeleteAnalysis
  \/ ListAnalyses

SpecStore == Init /\ [][NextStore]_vars

\* ------------------------------------------- the rule check corrects nothing
RulesCalled == call = "validate_ocr_with_draw_rules"
RulesReport == validation_result.val
RulesKinds ==
  {"rules_skipped", "rules_draw_date_error", "rules_api_call_failed",
   "rules_api_answer_error", "rules_api_no_date", "rules_calc_verified",
   "rules_calc_differs", "rules_purchase_error", "rules_recommended_draw"}
VerdictKinds ==
  {"draw_date_missing", "draw_date_not_computed", "draw_date_error",
   "draw_date_match", "draw_date_mismatch",
   "purchase_missing", "purchase_error", "purchase_not_computed",
   "purchase_match", "purchase_mismatch"}
HasMessage(report, kind) ==
  \E k \in 1..Len(report.validation_messages) : report.validation_messages[k].kind = kind

Stored(fs, id) == FileName(id) \in DOMAIN fs
SaveReturned == store_op = "save" /\ store_answer.status = 200
Named(ops) == store_op \in ops /\ store_id \in RequestIds

C30_DeleteAndMissing ==
  /\ (Named({"load", "delete"}) /\ ~Stored(before, store_id))
       => store_answer.status = 404 /\ files = before
  /\ (Named({"delete"}) /\ Stored(before, store_id))
       => /\ store_answer.status = 200
          /\ DOMAIN files = DOMAIN before \ {FileName(store_id)}
          /\ \A p \in DOMAIN files : files[p] = before[p]
  /\ \A id \in removed :
       /\ ~Stored(files, id)
       /\ (Named({"load", "delete"}) /\ store_id = id /\ ~Stored(before, id))
            => store_answer.status = 404
       /\ store_op = "list"
            => \A k \in 1..Len(store_answer.analyses) :
                 store_answer.analyses[k].id # StrV(id)
C30_Witness ==
  /\ Named({"delete"}) /\ store_id \in removed
  /\ store_answer.status = 404
  /\ ~Stored(before, store_id)
  /\ DOMAIN saved # {}

====
